---- MODULE Spec2Model ----
(***************************************************************************)
(* express-zod-safe: the validate() middleware factory of src/src/index.ts, *)
(* the global options it reads, and the request it validates and rewrites.  *)
(*                                                                          *)
(* JavaScript values are records tagged by t; objects map integer keys to   *)
(* values.  Key 0 is the one field a schema declares (name / id in the      *)
(* tests and examples); keys 1..MaxExtraKeys are fields no schema declares. *)
(***************************************************************************)
EXTENDS Integers, Sequences, FiniteSets, TLC

VARIABLES options, middleware, requests

vars == <<options, middleware, requests>>

\* how many undeclared field names a request segment can carry
MaxExtraKeys == 1

-----------------------------------------------------------------------------
(* JavaScript values *)

Undefined == [t |-> "undefined"]
Str(s) == [t |-> "string", v |-> s]
Num(s) == [t |-> "number", v |-> s]
Obj(f) == [t |-> "object", f |-> f]
EmptyObject == Obj(<<>>)

NameKey == 0
Keys == 0..MaxExtraKeys

RawValue(k) == IF k = NameKey THEN Str("7") ELSE Str("y")

\* the values a request segment holds when the middleware is called
SegmentData == {Undefined} \cup {Obj([k \in ks |-> RawValue(k)]) : ks \in SUBSET Keys}

\* x ?? y
Coalesce(x, y) == IF x = Undefined THEN y ELSE x

-----------------------------------------------------------------------------
(* zod schemas, as far as validate() uses them *)

FString == [kind |-> "string"]
FCoerceNumber == [kind |-> "coerceNumber"]

ZAny == [kind |-> "any"]
\* z.strictObject(shape)
ZStrictObject(shape) == [kind |-> "object", shape |-> shape, mode |-> "strict"]
\* z.object(shape)
ZObject(shape) == [kind |-> "object", shape |-> shape, mode |-> "strip"]

Issue(code, path, keys) == [code |-> code, path |-> path, keys |-> keys]

\* Number(v) of z.coerce.number(): a numeric string or a number, else NaN
FieldOk(fs, obj, k) ==
    /\ k \in DOMAIN obj
    /\ IF fs.kind = "string" THEN obj[k].t = "string"
       ELSE \/ obj[k].t = "number"
            \/ obj[k].t = "string" /\ obj[k].v \in {"7"}

FieldOut(fs, v) == IF fs.kind = "coerceNumber" /\ v.t = "string" THEN Num(v.v) ELSE v

ObjectIssues(schema, obj) ==
    LET unknown == DOMAIN obj \ DOMAIN schema.shape
    IN  {Issue("invalid_type", <<k>>, {}) : k \in {j \in DOMAIN schema.shape : ~FieldOk(schema.shape[j], obj, j)}}
        \cup (IF schema.mode = "strict" /\ unknown # {}
              THEN {Issue("unrecognized_keys", <<>>, unknown)} ELSE {})

\* a value in a shape that is no zod schema: it has no _parse method
FNotASchema == [kind |-> "notASchema"]

\* schema.safeParseAsync(input), once settled: a result, or, when the object
\* parser calls _parse on a shape value that has none, a rejection (TypeError)
SafeParse(schema, input) ==
    IF schema.kind = "any"
    THEN [success |-> TRUE, data |-> input, issues |-> {}, rejected |-> FALSE]
    ELSE IF input.t # "object"
         THEN [success |-> FALSE, data |-> Undefined,
               issues |-> {Issue("invalid_type", <<>>, {})}, rejected |-> FALSE]
    ELSE IF \E k \in DOMAIN schema.shape : schema.shape[k] = FNotASchema
         THEN [success |-> FALSE, data |-> Undefined, issues |-> {}, rejected |-> TRUE]
    ELSE LET is == ObjectIssues(schema, input.f)
         IN  IF is = {}
             THEN [success |-> TRUE,
                   data |-> Obj([k \in DOMAIN schema.shape |-> FieldOut(schema.shape[k], input.f[k])]),
                   issues |-> {}, rejected |-> FALSE]
             ELSE [success |-> FALSE, data |-> Undefined, issues |-> is, rejected |-> FALSE]

-----------------------------------------------------------------------------
(* src/src/index.ts *)

types == <<"query", "params", "body">>

\* failure handlers: the built-in one and the custom ones of the examples
defaultErrorHandler == [id |-> "defaultErrorHandler"]
\* setGlobalOptions({handler: (errors, req, res) => res.status(422).json(...)})
GlobalHandler == [id |-> "globalHandler"]
\* a handler that hands the errors on: (errors, req, res, next) => next(errors)
ForwardingHandler == [id |-> "forwardingHandler"]
\* validate({handler: (errors, req, res) => res.status(400).send('Validation failed')})
LocalHandler == [id |-> "localHandler"]
\* a handler that throws: (errors) => { throw new Error(...) }
ThrowingHandler == [id |-> "throwingHandler"]
\* an async handler whose promise rejects: async (errors) => { throw new Error(...) }
RejectingHandler == [id |-> "rejectingHandler"]

\* the object literal DEFAULT_OPTIONS is initialised with: the value it holds
\* when the module is loaded (a key the object does not have reads as undefined)
DEFAULT_OPTIONS ==
    [handler |-> defaultErrorHandler, defaultSchemaObject |-> Str("strict"),
     missingSchemaBehavior |-> Undefined]

\* const options = DEFAULT_OPTIONS: the exported object is the very object
\* setGlobalOptions assigns to, so what an importer reads from the exported
\* DEFAULT_OPTIONS is what options holds
ExportedDefaults == options

\* in an argument of setGlobalOptions: the key is not there
NotGiven == [t |-> "notgiven"]

\* the arguments setGlobalOptions is called with: any subset of the keys of
\* ValidateRequestGlobalOptions (a key that is no option is only set by InitAny)
PartialOptions ==
    {[handler |-> h, defaultSchemaObject |-> d, missingSchemaBehavior |-> NotGiven] :
        h \in {NotGiven, defaultErrorHandler, GlobalHandler, ForwardingHandler, Undefined},
        d \in {NotGiven, Str("strict"), Str("lax")}}

Assigned(old, new) == IF new = NotGiven THEN old ELSE new

\* mutant: the keys the source does not give go back to their defaults
ObjectAssignOntoDefaults(target, source) ==
    [handler |-> Assigned(DEFAULT_OPTIONS.handler, source.handler),
     defaultSchemaObject |-> Assigned(DEFAULT_OPTIONS.defaultSchemaObject, source.defaultSchemaObject),
     missingSchemaBehavior |-> Assigned(DEFAULT_OPTIONS.missingSchemaBehavior, source.missingSchemaBehavior)]

\* Object.assign(target, source): every key the source has is copied
ObjectAssign(target, source) ==
    [handler |-> Assigned(target.handler, source.handler),
     defaultSchemaObject |-> Assigned(target.defaultSchemaObject, source.defaultSchemaObject),
     missingSchemaBehavior |-> Assigned(target.missingSchemaBehavior, source.missingSchemaBehavior)]

\* the shapes and schemas handed to validate() in the tests and examples
\* safeParseAsync is what typeof schema.safeParseAsync gives
ShapeString == [t |-> "shape", safeParseAsync |-> "undefined", shape |-> (NameKey :> FString)]
ShapeCoerce == [t |-> "shape", safeParseAsync |-> "undefined", shape |-> (NameKey :> FCoerceNumber)]
ZodObjectString == [t |-> "zod", safeParseAsync |-> "function", schema |-> ZObject(NameKey :> FString)]
ZodAny == [t |-> "zod", safeParseAsync |-> "function", schema |-> ZAny]
\* validate({ query: 'a' }): a string is no zod type, so it goes to zodObject,
\* which keeps it as the shape: its one key, '0', holds 'a', which is no schema
MalformedString == [t |-> "string", safeParseAsync |-> "undefined", shape |-> (NameKey :> FNotASchema)]
\* validate({ params: 5 }): a number has no keys, the shape is empty
MalformedNumber == [t |-> "number", safeParseAsync |-> "undefined", shape |-> <<>>]

Schemas(p, q, b) == [params |-> p, query |-> q, body |-> b, handler |-> Undefined]

SchemaSets ==
    { Schemas(ZodObjectString, ZodObjectString, ZodObjectString),
      Schemas(Undefined, Undefined, ZodObjectString),
      Schemas(ShapeCoerce, ShapeString, ShapeString),
      Schemas(Undefined, ShapeString, Undefined),
      Schemas(ZodAny, Undefined, ShapeString),
      Schemas(Undefined, Undefined, Undefined) }

LocalHandlers == {Undefined, LocalHandler}

\* !!schema && typeof schema.safeParseAsync === 'function'
isZodType(schema) == schema # Undefined /\ schema.safeParseAsync = "function"

\* mutant: every field map becomes a z.object, whatever zodObject is
NormalizeObject(zodObject, schema) ==
    IF isZodType(schema) THEN schema.schema
    ELSE ZObject(IF schema = Undefined THEN <<>> ELSE schema.shape)

\* mutant: a zod object given by the caller is built again with zodObject
NormalizeRewrap(zodObject, schema) ==
    LET shape == IF schema = Undefined THEN <<>>
                 ELSE IF isZodType(schema) THEN schema.schema.shape ELSE schema.shape
    IN  IF isZodType(schema) /\ schema.schema.kind # "object" THEN schema.schema
        ELSE IF zodObject = "strictObject" THEN ZStrictObject(shape) ELSE ZObject(shape)

\* one entry of the validation object built by validate()
Normalize(zodObject, schema) ==
    IF isZodType(schema) THEN schema.schema
    ELSE LET shape == IF schema = Undefined THEN <<>> ELSE schema.shape
         IN  IF zodObject = "strictObject" THEN ZStrictObject(shape) ELSE ZObject(shape)

\* mutant: the option is compared the wrong way round
MakeMiddlewareInverted(opts, schemas) ==
    LET zodObject == IF opts.defaultSchemaObject # Str("strict") THEN "strictObject" ELSE "object"
    IN  [schemas |-> schemas,
         builtWhile |-> opts.defaultSchemaObject,
         zodObject |-> zodObject,
         validation |-> [params |-> Normalize(zodObject, schemas.params),
                         query |-> Normalize(zodObject, schemas.query),
                         body |-> Normalize(zodObject, schemas.body)]]

\* mutant: the option is not read, field maps are always strict
MakeMiddlewareStrict(opts, schemas) ==
    [schemas |-> schemas,
     builtWhile |-> opts.defaultSchemaObject,
     zodObject |-> "strictObject",
     validation |-> [params |-> Normalize("strictObject", schemas.params),
                     query |-> Normalize("strictObject", schemas.query),
                     body |-> Normalize("strictObject", schemas.body)]]

\* the closure validate(schemas) returns; builtWhile remembers the value of
\* options.defaultSchemaObject that line 153 read
MakeMiddleware(opts, schemas) ==
    LET zodObject == IF opts.defaultSchemaObject = Str("strict") THEN "strictObject" ELSE "object"
    IN  [schemas |-> schemas,
         builtWhile |-> opts.defaultSchemaObject,
         zodObject |-> zodObject,
         validation |-> [params |-> Normalize(zodObject, schemas.params),
                         query |-> Normalize(zodObject, schemas.query),
                         body |-> Normalize(zodObject, schemas.body)]]

NotBuilt == [schemas |-> Undefined]

\* mutant: the setter keeps _query on express.request, which all requests share
ReqGetShared(req, type) ==
    IF type = "query"
    THEN LET written == {n \in 1..Len(requests) : Len(requests[n].req.ownQuery) > 0}
         IN  IF written # {}
             THEN requests[CHOOSE n \in written : TRUE].req.ownQuery[1]
             ELSE req.parsedQuery
    ELSE req[type]

\* express.request.query: the overriding getter and setter
ReqGet(req, type) ==
    IF type = "query"
    THEN IF Len(req.ownQuery) > 0 THEN req.ownQuery[1] ELSE req.parsedQuery
    ELSE req[type]

ReqSet(req, type, value) ==
    IF type = "query" THEN [req EXCEPT !.ownQuery = <<value>>]
    ELSE [req EXCEPT ![type] = value]

Segments(req) ==
    [params |-> ReqGet(req, "params"), query |-> ReqGet(req, "query"), body |-> ReqGet(req, "body")]

\* mutant: the strictness of a field map is looked up when the request is validated
StartParseLazy(mw, req, type) ==
    SafeParse(Normalize(IF options.defaultSchemaObject = Str("strict")
                        THEN "strictObject" ELSE "object", mw.schemas[type]),
              Coalesce(ReqGet(req, type), EmptyObject))

\* mutant: the segment is handed over as it is, absent or not
StartParseNoDefault(mw, req, type) == SafeParse(mw.validation[type], ReqGet(req, type))

\* validation[type].safeParseAsync(req[type] ?? {})
StartParse(mw, req, type) == SafeParse(mw.validation[type], Coalesce(ReqGet(req, type), EmptyObject))

NoResponse == [status |-> 0, body |-> Undefined]

\* mutant: the issues are left out of the response
ErrorBodyWithoutIssues(errors) == [n \in 1..Len(errors) |-> [type |-> errors[n].type, errors |-> {}]]

\* errors.map(error => ({ type: error.type, errors: error.errors.issues }))
ErrorBody(errors) == [n \in 1..Len(errors) |-> [type |-> errors[n].type, errors |-> errors[n].errors]]

\* mutant: the handler is called inside a try whose catch does nothing
RunHandlerCaught(handler, from, r) ==
    LET ran == [r EXCEPT !.ran = Append(@, [handler |-> handler, from |-> from, errors |-> r.errors])]
    IN  IF handler = Undefined
        THEN r
        ELSE IF handler \in {ThrowingHandler, RejectingHandler}
        THEN ran
        ELSE IF handler = defaultErrorHandler
        THEN [ran EXCEPT !.res = [status |-> 400, body |-> ErrorBody(r.errors)]]
        ELSE IF handler = GlobalHandler
        THEN [ran EXCEPT !.res = [status |-> 422, body |-> Str("validationErrors")]]
        ELSE IF handler = ForwardingHandler
        THEN [ran EXCEPT !.nextCalls = Append(@, [by |-> "handler", args |-> 1])]
        ELSE [ran EXCEPT !.res = [status |-> 400, body |-> Str("Validation failed")]]

\* handler(errors, req, res, next)
RunHandler(handler, from, r) ==
    LET ran == [r EXCEPT !.ran = Append(@, [handler |-> handler, from |-> from, errors |-> r.errors])]
    IN  IF handler = Undefined
        THEN [r EXCEPT !.thrown = "TypeError"]
        ELSE IF handler \in {ThrowingHandler, RejectingHandler}
        THEN [ran EXCEPT !.thrown = "handlerError"]
        ELSE IF handler = defaultErrorHandler
        THEN [ran EXCEPT !.res = [status |-> 400, body |-> ErrorBody(r.errors)]]
        ELSE IF handler = GlobalHandler
        THEN [ran EXCEPT !.res = [status |-> 422, body |-> Str("validationErrors")]]
        ELSE IF handler = ForwardingHandler
        THEN [ran EXCEPT !.nextCalls = Append(@, [by |-> "handler", args |-> 1])]
        ELSE [ran EXCEPT !.res = [status |-> 400, body |-> Str("Validation failed")]]

\* mutant: the return after the handler is missing, next() follows it
DispatchFallsThrough(opts, mw, r) ==
    LET handled ==
            IF Len(r.errors) > 0
            THEN IF mw.schemas.handler # Undefined
                 THEN RunHandler(mw.schemas.handler, "schemas", r)
                 ELSE RunHandler(opts.handler, "options", r)
            ELSE r
    IN  IF handled.thrown # "none" THEN handled
        ELSE [handled EXCEPT !.nextCalls = Append(@, [by |-> "middleware", args |-> 0])]

\* mutant: the global handler is the one the module started with
DispatchStale(opts, mw, r) ==
    IF Len(r.errors) > 0
    THEN IF mw.schemas.handler # Undefined
         THEN RunHandler(mw.schemas.handler, "schemas", r)
         ELSE RunHandler(DEFAULT_OPTIONS.handler, "options", r)
    ELSE [r EXCEPT !.nextCalls = Append(@, [by |-> "middleware", args |-> 0])]

\* the code after the loop: the failure handler, or next()
Dispatch(opts, mw, r) ==
    IF Len(r.errors) > 0
    THEN IF mw.schemas.handler # Undefined
         THEN RunHandler(mw.schemas.handler, "schemas", r)
         ELSE RunHandler(opts.handler, "options", r)
    ELSE [r EXCEPT !.nextCalls = Append(@, [by |-> "middleware", args |-> 0])]

\* mutant: the parsed data is not written back to the request
SettleNoRewrite(r) ==
    IF r.pending.success THEN r
    ELSE [r EXCEPT !.errors = Append(@, [type |-> types[r.i], errors |-> r.pending.issues])]

\* mutant: parsed.data is written back whether or not the parse succeeded
SettleAlwaysRewrite(r) ==
    LET type == types[r.i]
        written == [r EXCEPT !.req = ReqSet(@, type, r.pending.data)]
    IN  IF r.pending.success THEN written
        ELSE [written EXCEPT !.errors = Append(@, [type |-> type, errors |-> r.pending.issues])]

\* mutant: the errors array is declared outside the returned middleware, so a
\* request also sees the entries the first request in flight has pushed
SettleSharedErrors(r) ==
    LET type == types[r.i]
        shared == IF requests[1] = r THEN <<>> ELSE requests[1].errors
    IN  IF r.pending.success
        THEN [r EXCEPT !.req = ReqSet(@, type, r.pending.data)]
        ELSE [r EXCEPT !.errors = Append(shared \o @, [type |-> type, errors |-> r.pending.issues])]

\* mutant: once a segment has failed, the later ones are no longer rewritten
SettleKeepsRawAfterFailure(r) ==
    LET type == types[r.i]
    IN  IF r.pending.rejected
        THEN [r EXCEPT !.thrown = "schemaTypeError"]
        ELSE IF r.pending.success
        THEN IF r.errors = <<>> THEN [r EXCEPT !.req = ReqSet(@, type, r.pending.data)] ELSE r
        ELSE [r EXCEPT !.errors = Append(@, [type |-> type, errors |-> r.pending.issues])]

\* mutant: a segment that failed is emptied
SettleClearsFailed(r) ==
    LET type == types[r.i]
    IN  IF r.pending.rejected
        THEN [r EXCEPT !.thrown = "schemaTypeError"]
        ELSE IF r.pending.success
        THEN [r EXCEPT !.req = ReqSet(@, type, r.pending.data)]
        ELSE [r EXCEPT !.req = ReqSet(@, type, EmptyObject),
                       !.errors = Append(@, [type |-> type, errors |-> r.pending.issues])]

\* the loop body after its await: rewrite the segment or record the failure
Settle(r) ==
    LET type == types[r.i]
    IN  IF r.pending.rejected
        THEN [r EXCEPT !.thrown = "schemaTypeError"]
        ELSE IF r.pending.success
        THEN [r EXCEPT !.req = ReqSet(@, type, r.pending.data)]
        ELSE [r EXCEPT !.errors = Append(@, [type |-> type, errors |-> r.pending.issues])]

-----------------------------------------------------------------------------
(* actions *)

Init ==
    /\ options = DEFAULT_OPTIONS
    /\ middleware = NotBuilt
    /\ requests = <<>>

\* mutant: the merge copies the handler and lets other code run before it
\* copies the rest
SetGlobalOptionsTorn(newOptions) ==
    /\ options' = ObjectAssign(options, [newOptions EXCEPT !.defaultSchemaObject = NotGiven])
    /\ UNCHANGED <<middleware, requests>>

\* setGlobalOptions(newOptions)
SetGlobalOptions(newOptions) ==
    /\ options' = ObjectAssign(options, newOptions)
    /\ UNCHANGED <<middleware, requests>>

\* setGlobalErrorHandler(handler)
SetGlobalErrorHandler(handler) ==
    /\ options' = [options EXCEPT !.handler = handler]
    /\ UNCHANGED <<middleware, requests>>

\* validate(schemas): the route is set up once
Validate(schemas) ==
    /\ middleware = NotBuilt
    /\ middleware' = MakeMiddleware(options, schemas)
    /\ UNCHANGED <<options, requests>>

\* mutant: next() is called before the first validation is awaited
NewRequestNextFirst(mw, p, q, b) ==
    LET req == [params |-> p, body |-> b, parsedQuery |-> q, ownQuery |-> <<>>]
    IN  [req |-> req, raw |-> Segments(req), i |-> 1, pc |-> "await",
         pending |-> StartParse(mw, req, types[1]),
         errors |-> <<>>, nextCalls |-> <<[by |-> "middleware", args |-> 0]>>, ran |-> <<>>,
         res |-> NoResponse, thrown |-> "none", promise |-> "pending"]

NewRequest(mw, p, q, b) ==
    LET req == [params |-> p, body |-> b, parsedQuery |-> q, ownQuery |-> <<>>]
    IN  [req |-> req, raw |-> Segments(req), i |-> 1, pc |-> "await",
         pending |-> StartParse(mw, req, types[1]),
         errors |-> <<>>, nextCalls |-> <<>>, ran |-> <<>>,
         res |-> NoResponse, thrown |-> "none", promise |-> "pending"]

\* mutant: the validators are built again, from the current options, for
\* every request
CallRebuilding(p, q, b) ==
    /\ middleware # NotBuilt
    /\ requests = <<>>
    /\ middleware' = MakeMiddleware(options, middleware.schemas)
    /\ requests' = <<NewRequest(middleware', p, q, b)>>
    /\ UNCHANGED options

\* express calls the middleware with a request: it runs up to the first await
Call(p, q, b) ==
    /\ middleware # NotBuilt
    /\ requests = <<>>
    /\ requests' = <<NewRequest(middleware, p, q, b)>>
    /\ UNCHANGED <<options, middleware>>

\* the async function ends: its promise follows what the return gave (the
\* handler's own promise, when it returns one, is taken as settled at once)
Return(r) ==
    [r EXCEPT !.pc = "done",
              !.promise = IF r.thrown # "none" THEN "rejected" ELSE "resolved"]

\* mutant: the loop stops at the first segment that fails
ResumeFailFast(n) ==
    /\ n \in 1..Len(requests)
    /\ requests[n].pc = "await"
    /\ LET r == Settle(requests[n])
       IN  requests' = [requests EXCEPT ![n] =
              IF r.i < Len(types) /\ r.errors = <<>>
              THEN [r EXCEPT !.i = r.i + 1,
                             !.pending = StartParse(middleware, r.req, types[r.i + 1])]
              ELSE Return(Dispatch(options, middleware, r))]
    /\ UNCHANGED <<options, middleware>>

\* an awaited safeParseAsync settles: the await throws what it was rejected
\* with, or the loop goes on to the next await, or, after the last segment, to
\* the dispatch and the end of the middleware
Resume(n) ==
    /\ n \in 1..Len(requests)
    /\ requests[n].pc = "await"
    /\ LET r == Settle(requests[n])
       IN  requests' = [requests EXCEPT ![n] =
              IF r.thrown # "none" THEN Return(r)
              ELSE IF r.i < Len(types)
              THEN [r EXCEPT !.i = r.i + 1,
                             !.pending = StartParse(middleware, r.req, types[r.i + 1])]
              ELSE Return(Dispatch(options, middleware, r))]
    /\ UNCHANGED <<options, middleware>>

\* one request is served in a behaviour of Spec
Served == {1}

Next ==
    \/ \E newOptions \in PartialOptions : SetGlobalOptions(newOptions)
    \/ \E h \in {GlobalHandler, ForwardingHandler} : SetGlobalErrorHandler(h)
    \/ \E s \in SchemaSets, h \in LocalHandlers : Validate([s EXCEPT !.handler = h])
    \/ \E p, q, b \in SegmentData : Call(p, q, b)
    \/ \E n \in Served : Resume(n)

Spec == Init /\ [][Next]_vars

\* the options never change: only validate() and requests
NextDefault ==
    \/ \E s \in SchemaSets, h \in LocalHandlers : Validate([s EXCEPT !.handler = h])
    \/ \E p, q, b \in SegmentData : Call(p, q, b)
    \/ \E n \in Served : Resume(n)

DefaultSpec == Init /\ [][NextDefault]_vars

\* the state after setGlobalOptions({...DEFAULT_OPTIONS, missingSchemaBehavior: 'any'})
InitAny ==
    /\ options = ObjectAssign(DEFAULT_OPTIONS,
                    [handler |-> NotGiven, defaultSchemaObject |-> NotGiven,
                     missingSchemaBehavior |-> Str("any")])
    /\ middleware = NotBuilt
    /\ requests = <<>>

AnySpec == InitAny /\ [][Next]_vars

\* the set-up calls of an application: options and validate(), no request yet
NextSetup ==
    \/ \E newOptions \in PartialOptions : SetGlobalOptions(newOptions)
    \/ \E h \in {GlobalHandler, ForwardingHandler} : SetGlobalErrorHandler(h)
    \/ \E s \in SchemaSets, h \in LocalHandlers : Validate([s EXCEPT !.handler = h])

SetupSpec == Init /\ [][NextSetup]_vars

\* the application's handlers fail: the global one throws, the per-invocation
\* one returns a promise that rejects
NextFailing ==
    \/ SetGlobalErrorHandler(ThrowingHandler)
    \/ \E s \in SchemaSets, h \in {Undefined, RejectingHandler} :
          Validate([s EXCEPT !.handler = h])
    \/ \E p, q, b \in SegmentData : Call(p, q, b)
    \/ \E n \in Served : Resume(n)

FailingSpec == Init /\ [][NextFailing]_vars

\* several requests in flight through one middleware
MaxInFlight == 2

\* express calls the middleware while earlier requests are still suspended
CallConcurrent(p, q, b) ==
    /\ middleware # NotBuilt
    /\ Len(requests) < MaxInFlight
    /\ requests' = Append(requests, NewRequest(middleware, p, q, b))
    /\ UNCHANGED <<options, middleware>>

ConcurrentSchemaSets ==
    { Schemas(ShapeString, ShapeCoerce, ZodObjectString),
      Schemas(Undefined, ShapeString, Undefined) }

\* { name: '7' } and { name: '7', extra: 'y' }
ConcurrentData ==
    { Obj([k \in ks |-> RawValue(k)]) : ks \in {{NameKey}, {NameKey, 1}} }

\* options are changed while validate() is called and a request is in flight
NextOptions ==
    \/ \E newOptions \in PartialOptions : SetGlobalOptions(newOptions)
    \/ \E s \in ConcurrentSchemaSets : Validate(s)
    \/ \E p, q, b \in ConcurrentData : Call(p, q, b)
    \/ \E n \in Served : Resume(n)

OptionsSpec == Init /\ [][NextOptions]_vars

\* validate() is given declarations that are neither zod types nor field maps
MalformedSchemaSets ==
    { Schemas(ShapeString, MalformedString, Undefined),
      Schemas(MalformedNumber, ShapeString, Undefined) }

NextMalformed ==
    \/ \E s \in MalformedSchemaSets : Validate(s)
    \/ \E p, q, b \in SegmentData : Call(p, q, b)
    \/ \E n \in Served : Resume(n)

MalformedSpec == Init /\ [][NextMalformed]_vars

NextConcurrent ==
    \/ SetGlobalErrorHandler(GlobalHandler)
    \/ \E s \in ConcurrentSchemaSets : Validate(s)
    \/ \E p, q, b \in ConcurrentData : CallConcurrent(p, q, b)
    \/ \E n \in 1..MaxInFlight : Resume(n)

ConcurrentSpec == Init /\ [][NextConcurrent]_vars

-----------------------------------------------------------------------------
(* what the claims speak about *)

SegmentNames == {"params", "query", "body"}

Reqs == {requests[n] : n \in 1..Len(requests)}

Done(r) == r.pc = "done"

\* the outcome of a segment's schema on the data the request arrived with
Outcome(r, type) == SafeParse(middleware.validation[type], Coalesce(r.raw[type], EmptyObject))

Passes(r, type) == Outcome(r, type).success

AllPass(r) == \A type \in SegmentNames : Passes(r, type)

FailedSegments(r) == {type \in SegmentNames : ~Passes(r, type)}

\* the segments the loop has dealt with so far
Position(type) == CHOOSE n \in 1..Len(types) : types[n] = type

Settled(r, type) == Done(r) \/ Position(type) < r.i

ErrorTypes(r) == {r.errors[n].type : n \in 1..Len(r.errors)}

CallsBy(r, who) == {n \in 1..Len(r.nextCalls) : r.nextCalls[n].by = who}

NonEmpty(v) == v.t = "object" /\ DOMAIN v.f # {}

HasExtra(v, shape) == v.t = "object" /\ DOMAIN v.f \ DOMAIN shape # {}

IsMapping(schema) == schema # Undefined /\ schema.t = "shape"

-----------------------------------------------------------------------------
(* C1..C10 *)

\* C1: when params, query and body all pass their schemas, the middleware
\* calls next exactly once, with no arguments, runs no failure handler, and
\* every segment of the request then holds the output of its schema.
C1_ValidDataReplacesRaw ==
    \A r \in Reqs : Done(r) /\ AllPass(r) =>
        /\ r.nextCalls = <<[by |-> "middleware", args |-> 0]>>
        /\ r.ran = <<>>
        /\ \A type \in SegmentNames : ReqGet(r.req, type) = Outcome(r, type).data

\* a request that passed and whose three segments were all changed by the rewrite
C1_Witness ==
    \E r \in Reqs :
        /\ Done(r) /\ AllPass(r) /\ Len(r.nextCalls) = 1
        /\ \A type \in SegmentNames : ReqGet(r.req, type) # r.raw[type]

\* C2: when a segment fails, the middleware itself never calls next, and with
\* the built-in handler or a custom handler that does not call next, next is
\* not called at all for that request.
C2_NoNextOnFailure ==
    \A r \in Reqs : ~AllPass(r) =>
        /\ CallsBy(r, "middleware") = {}
        /\ (Done(r) /\ \A n \in 1..Len(r.ran) :
                r.ran[n].handler \in {defaultErrorHandler, GlobalHandler, LocalHandler})
            => r.nextCalls = <<>>

\* a failed request answered by the built-in handler, next never called
C2_Witness ==
    \E r \in Reqs :
        /\ Done(r) /\ ~AllPass(r) /\ r.nextCalls = <<>>
        /\ Len(r.ran) = 1 /\ r.ran[1].handler = defaultErrorHandler

\* C3 as claimed: when the failure handler is invoked, every segment still
\* holds the raw value the request arrived with.
C3_AllOrNothing ==
    \A r \in Reqs : r.ran # <<>> => Segments(r.req) = r.raw

\* C3 as amended: when a request fails, the segments that failed still hold
\* their raw value and the segments that passed hold the output of their schema.
C3_FailedKeptPassedRewritten ==
    \A r \in Reqs : Done(r) /\ ~AllPass(r) =>
        \A type \in SegmentNames :
            ReqGet(r.req, type) =
                IF Passes(r, type) THEN Outcome(r, type).data ELSE r.raw[type]

\* the handler ran on a request of which one segment failed and another,
\* which passed, was rewritten to something else than its raw value
C3_Witness ==
    \E r \in Reqs :
        /\ Done(r) /\ r.ran # <<>>
        /\ \E type \in SegmentNames : ~Passes(r, type) /\ ReqGet(r.req, type) = r.raw[type]
        /\ \E type \in SegmentNames : Passes(r, type) /\ ReqGet(r.req, type) # r.raw[type]

\* the order the claim gives
ClaimedRank(type) == IF type = "params" THEN 1 ELSE IF type = "query" THEN 2 ELSE 3

\* C4: the failure list names the failed segments in the order params, query,
\* body: an earlier entry is always of an earlier segment in that order.
C4_ParamsQueryBodyOrder ==
    \A r \in Reqs : \A m, n \in 1..Len(r.errors) :
        m < n => ClaimedRank(r.errors[m].type) < ClaimedRank(r.errors[n].type)

\* the handler the claim's precedence picks
ClaimedHandler(opts, mw) ==
    IF mw.schemas.handler # Undefined THEN mw.schemas.handler
    ELSE IF opts.handler \in {GlobalHandler, ForwardingHandler} THEN opts.handler
    ELSE defaultErrorHandler

\* C5: the step that ends a failed request runs exactly one handler: the one
\* given to validate() if there is one, else the global one that was set, else
\* the built-in one.
C5_HandlerPrecedence ==
    [][\A n \in 1..Len(requests) :
          (/\ Len(requests') = Len(requests)
           /\ ~Done(requests[n]) /\ Done(requests'[n])
           /\ ~AllPass(requests[n]))
          => /\ Len(requests'[n].ran) = 1
             /\ requests'[n].ran[1].handler = ClaimedHandler(options, middleware)]_vars

\* C6: the built-in handler answers 400 with a list that has exactly one
\* {type, errors} entry for each failed segment, errors being the issues of
\* that segment, and none for a segment that passed; it does not call next.
C6_DefaultHandlerResponse ==
    \A r \in Reqs :
        (Done(r) /\ r.ran # <<>> /\ r.ran[1].handler = defaultErrorHandler) =>
            /\ r.res.status = 400
            /\ Len(r.res.body) = Cardinality(FailedSegments(r))
            /\ {r.res.body[n].type : n \in 1..Len(r.res.body)} = FailedSegments(r)
            /\ \A n \in 1..Len(r.res.body) :
                  /\ DOMAIN r.res.body[n] = {"type", "errors"}
                  /\ r.res.body[n].errors = Outcome(r, r.res.body[n].type).issues
            /\ r.nextCalls = <<>>

\* the built-in handler answered a request with two failed segments and one
\* that passed
C6_Witness ==
    \E r \in Reqs :
        /\ Done(r) /\ r.ran # <<>> /\ r.ran[1].handler = defaultErrorHandler
        /\ Cardinality(FailedSegments(r)) = 2
        /\ r.res.status = 400 /\ Len(r.res.body) = 2

\* C7 (the options are never changed): a segment validate() got no schema for
\* is rejected when it carries data (a failure for it is recorded and handed to
\* the handler, next is not called) and passes when it is empty or absent.
C7_MissingSchemaMeansEmpty ==
    \A r \in Reqs : \A type \in SegmentNames :
        (middleware.schemas[type] = Undefined /\ Settled(r, type)) =>
            IF NonEmpty(r.raw[type])
            THEN /\ type \in ErrorTypes(r)
                 /\ r.nextCalls = <<>>
                 /\ Done(r) => /\ Len(r.ran) = 1
                               /\ \E n \in 1..Len(r.ran[1].errors) : r.ran[1].errors[n].type = type
            ELSE /\ type \notin ErrorTypes(r)
                 /\ (Done(r) /\ AllPass(r)) => Len(r.nextCalls) = 1

\* one request, two segments without a schema: the one with data was
\* rejected, the absent one was accepted
C7_Witness ==
    \E r \in Reqs : \E t1, t2 \in SegmentNames :
        /\ Done(r)
        /\ middleware.schemas[t1] = Undefined /\ NonEmpty(r.raw[t1]) /\ t1 \in ErrorTypes(r)
        /\ middleware.schemas[t2] = Undefined /\ r.raw[t2] = Undefined /\ t2 \notin ErrorTypes(r)

\* C8 (after setGlobalOptions({missingSchemaBehavior: "any"})): a segment
\* validate() got no schema for is accepted whatever data it carries, the data
\* stays as it was (an absent segment may read as {}), and next is called when
\* the other segments pass.
C8_MissingSchemaAny ==
    \A r \in Reqs : \A type \in SegmentNames :
        (/\ options.missingSchemaBehavior = Str("any")
         /\ middleware.schemas[type] = Undefined /\ Settled(r, type)) =>
            /\ type \notin ErrorTypes(r)
            /\ ReqGet(r.req, type) = Coalesce(r.raw[type], EmptyObject)
            /\ (Done(r) /\ \A other \in SegmentNames :
                    middleware.schemas[other] # Undefined => Passes(r, other))
                => Len(r.nextCalls) = 1

\* C9: a field map given to validate() while defaultSchemaObject is "strict"
\* rejects a segment that carries a field the map does not name, valid as the
\* named fields may be: a failure is recorded, the segment is not rewritten and
\* the middleware does not call next.
C9_StrictRejectsExtra ==
    \A r \in Reqs : \A type \in SegmentNames :
        (/\ middleware.builtWhile = Str("strict")
         /\ IsMapping(middleware.schemas[type])
         /\ HasExtra(r.raw[type], middleware.schemas[type].shape)
         /\ Settled(r, type)) =>
            /\ type \in ErrorTypes(r)
            /\ ReqGet(r.req, type) = r.raw[type]
            /\ CallsBy(r, "middleware") = {}

NamedFieldsValid(shape, v) ==
    v.t = "object" /\ \A k \in DOMAIN shape : FieldOk(shape[k], v.f, k)

\* a strict field map rejected a segment whose named field was valid
C9_Witness ==
    \E r \in Reqs : \E type \in SegmentNames :
        /\ Done(r) /\ middleware.builtWhile = Str("strict")
        /\ IsMapping(middleware.schemas[type])
        /\ HasExtra(r.raw[type], middleware.schemas[type].shape)
        /\ NamedFieldsValid(middleware.schemas[type].shape, r.raw[type])
        /\ type \in ErrorTypes(r)

\* C10: a field map given to validate() while defaultSchemaObject is "lax"
\* accepts a segment with undeclared fields (its named fields being valid),
\* and the rewritten segment has exactly the named fields.
C10_LaxDropsExtra ==
    \A r \in Reqs : \A type \in SegmentNames :
        (/\ middleware.builtWhile = Str("lax")
         /\ IsMapping(middleware.schemas[type])
         /\ HasExtra(r.raw[type], middleware.schemas[type].shape)
         /\ NamedFieldsValid(middleware.schemas[type].shape, r.raw[type])
         /\ Settled(r, type)) =>
            LET shape == middleware.schemas[type].shape
                now == ReqGet(r.req, type)
            IN  /\ type \notin ErrorTypes(r)
                /\ now.t = "object"
                /\ DOMAIN now.f = DOMAIN shape
                /\ \A k \in DOMAIN shape : now.f[k] = FieldOut(shape[k], r.raw[type].f[k])

\* a lax field map accepted a segment with an extra field and dropped it
C10_Witness ==
    \E r \in Reqs : \E type \in SegmentNames :
        /\ Done(r) /\ middleware.builtWhile = Str("lax")
        /\ IsMapping(middleware.schemas[type])
        /\ HasExtra(r.raw[type], middleware.schemas[type].shape)
        /\ type \notin ErrorTypes(r)
        /\ DOMAIN ReqGet(r.req, type).f = DOMAIN middleware.schemas[type].shape

-----------------------------------------------------------------------------
(* C11..C20 *)

\* C11: a segment that validate() got no schema for is checked as an empty
\* strict map whatever defaultSchemaObject is: in a middleware built while the
\* option is "lax" (missingSchemaBehavior not set), a request with non-empty
\* data in that segment is rejected.
C11_AbsentSchemaStrictUnderLax ==
    \A r \in Reqs : \A type \in SegmentNames :
        (/\ middleware.builtWhile = Str("lax")
         /\ options.missingSchemaBehavior = Undefined
         /\ middleware.schemas[type] = Undefined
         /\ NonEmpty(r.raw[type])
         /\ Settled(r, type)) => type \in ErrorTypes(r)

\* C12: a declaration with a safeParseAsync function is the segment's
\* validator as it is, whatever defaultSchemaObject was: z.any() accepts any
\* data and leaves it as it came, a z.object() of the caller drops undeclared
\* fields even in a middleware built while the option is "strict"; every other
\* declaration is validated as a map of its fields, and the other segments of
\* the same middleware keep their own rules.
C12_ZodTypeUsedAsIs ==
    /\ \A r \in Reqs : \A type \in SegmentNames :
          LET decl == middleware.schemas[type]
              now == ReqGet(r.req, type)
          IN  /\ (decl = ZodAny /\ Settled(r, type)) =>
                    /\ type \notin ErrorTypes(r)
                    /\ now = Coalesce(r.raw[type], EmptyObject)
              /\ (/\ decl = ZodObjectString /\ Settled(r, type)
                  /\ NamedFieldsValid(decl.schema.shape, r.raw[type])) =>
                    /\ type \notin ErrorTypes(r)
                    /\ now.t = "object"
                    /\ DOMAIN now.f = DOMAIN decl.schema.shape
    /\ middleware # NotBuilt =>
          \A type \in SegmentNames :
              LET decl == middleware.schemas[type]
              IN  (decl = Undefined \/ decl.safeParseAsync # "function") =>
                     /\ middleware.validation[type].kind = "object"
                     /\ DOMAIN middleware.validation[type].shape =
                           IF decl = Undefined THEN {} ELSE DOMAIN decl.shape

\* in a middleware built while the option is "strict", z.any() accepted params
\* with a field nobody declared and left them as they came, while the query,
\* which has no schema, was rejected for carrying data
C12_Witness ==
    \E r \in Reqs :
        /\ Done(r) /\ middleware.builtWhile = Str("strict")
        /\ middleware.schemas.params = ZodAny
        /\ HasExtra(r.raw.params, NameKey :> FString)
        /\ "params" \notin ErrorTypes(r)
        /\ r.req.params = r.raw.params
        /\ middleware.schemas.query = Undefined
        /\ "query" \in ErrorTypes(r)

\* C13: once setGlobalOptions has given defaultSchemaObject another value than
\* the one validate() read when it built the middleware, the middleware still
\* treats undeclared fields of a field-map segment as it did when it was built:
\* a parse it has started, and a segment it has dealt with, fail exactly when
\* the middleware was built under "strict".
C13_StrictnessFixedAtValidate ==
    \A r \in Reqs : \A type \in SegmentNames :
        (/\ options.defaultSchemaObject # middleware.builtWhile
         /\ IsMapping(middleware.schemas[type])
         /\ HasExtra(r.raw[type], middleware.schemas[type].shape)
         /\ NamedFieldsValid(middleware.schemas[type].shape, r.raw[type])) =>
            /\ (r.pc = "await" /\ types[r.i] = type) =>
                  (r.pending.success <=> middleware.builtWhile # Str("strict"))
            /\ Settled(r, type) =>
                  (type \in ErrorTypes(r) <=> middleware.builtWhile = Str("strict"))

\* the option went from "strict" to "lax" after validate(), and the middleware
\* still rejects the undeclared field of the segment it is validating
C13_Witness ==
    \E r \in Reqs :
        /\ middleware.builtWhile = Str("strict")
        /\ options.defaultSchemaObject = Str("lax")
        /\ r.pc = "await"
        /\ IsMapping(middleware.schemas[types[r.i]])
        /\ HasExtra(r.raw[types[r.i]], middleware.schemas[types[r.i]].shape)
        /\ NamedFieldsValid(middleware.schemas[types[r.i]].shape, r.raw[types[r.i]])
        /\ ~r.pending.success

\* C14: the step that ends a failing request whose middleware has no handler of
\* its own runs the handler the options hold at that step, whenever it was
\* installed (before the request, or while its validation was suspended), and
\* runs no other.
C14_HandlerReadAtDispatch ==
    [][\A n \in 1..Len(requests) :
          (/\ requests[n].pc = "await" /\ requests'[n].pc = "done"
           /\ requests'[n].errors # <<>>
           /\ middleware.schemas.handler = Undefined
           /\ options.handler # Undefined) =>
              /\ Len(requests'[n].ran) = 1
              /\ requests'[n].ran[1].handler = options.handler
              /\ requests'[n].ran[1].from = "options"]_vars

\* a handler installed after the module was loaded answered a failing request
\* of a middleware without a handler of its own
C14_Witness ==
    \E r \in Reqs :
        /\ Done(r) /\ middleware.schemas.handler = Undefined
        /\ Len(r.ran) = 1 /\ r.ran[1].handler = GlobalHandler
        /\ r.res.status = 422

\* what setGlobalOptions(newOptions) leaves behind, key by key
Overlaid(newOptions) ==
    /\ options'.handler =
          IF newOptions.handler = NotGiven THEN options.handler ELSE newOptions.handler
    /\ options'.defaultSchemaObject =
          IF newOptions.defaultSchemaObject = NotGiven THEN options.defaultSchemaObject
          ELSE newOptions.defaultSchemaObject
    /\ options'.missingSchemaBehavior =
          IF newOptions.missingSchemaBehavior = NotGiven THEN options.missingSchemaBehavior
          ELSE newOptions.missingSchemaBehavior

\* C15: a setGlobalOptions(partial) step leaves every key that partial gives
\* with the given value and every other key with the value it had; a
\* setGlobalErrorHandler(h) step leaves handler = h and the other keys as they
\* were.
C15_ShallowOverlay ==
    [][options' # options =>
          /\ \A newOptions \in PartialOptions :
                SetGlobalOptions(newOptions) => Overlaid(newOptions)
          /\ \A h \in {GlobalHandler, ForwardingHandler} :
                SetGlobalErrorHandler(h) =>
                   /\ options'.handler = h
                   /\ options'.defaultSchemaObject = options.defaultSchemaObject
                   /\ options'.missingSchemaBehavior = options.missingSchemaBehavior]_vars

\* the handler and the strictness were both set, the third key never was
C15_Witness ==
    /\ options.handler = ForwardingHandler
    /\ options.defaultSchemaObject = Str("lax")
    /\ options.missingSchemaBehavior = DEFAULT_OPTIONS.missingSchemaBehavior
    /\ middleware # NotBuilt

\* C16: every segment the loop has dealt with has an entry in the failure list
\* exactly when its data fails its schema, whatever happened to the others; a
\* request that is over has been through all three segments and its list has
\* one entry per failed segment; the list a handler was given is that list,
\* with one to three entries.
C16_CompleteFailureReport ==
    \A r \in Reqs :
        /\ \A type \in SegmentNames :
              Settled(r, type) => (type \in ErrorTypes(r) <=> ~Passes(r, type))
        /\ Done(r) =>
              /\ r.i = Len(types)
              /\ ErrorTypes(r) = FailedSegments(r)
              /\ Len(r.errors) = Cardinality(FailedSegments(r))
        /\ \A k \in 1..Len(r.ran) :
              /\ r.ran[k].errors = r.errors
              /\ Len(r.ran[k].errors) \in 1..Len(types)
              /\ {r.ran[k].errors[j].type : j \in 1..Len(r.ran[k].errors)} = FailedSegments(r)

\* all three segments failed and the handler was given the three entries
C16_Witness ==
    \E r \in Reqs :
        /\ Done(r) /\ Len(r.ran) = 1
        /\ Len(r.ran[1].errors) = Len(types)
        /\ ErrorTypes(r) = SegmentNames

\* C17: a request for which next or a handler has been called, or a response
\* sent, has had all three of its segments settled; while one of its
\* validations is awaited the promise of the middleware is pending; and the
\* promise resolves only once next or a handler has been called.
C17_NothingBeforeAllSettled ==
    \A r \in Reqs :
        /\ (r.nextCalls # <<>> \/ r.ran # <<>> \/ r.res.status # NoResponse.status) =>
              /\ r.pc = "done" /\ r.i = Len(types)
              /\ \A type \in SegmentNames : type \in ErrorTypes(r) <=> ~Passes(r, type)
        /\ r.pc = "await" => r.promise = "pending"
        /\ r.promise = "resolved" => Len(r.nextCalls) + Len(r.ran) >= 1

\* the first two segments have settled, one of them failed, the third is
\* awaited: nothing has been called and the promise is pending
C17_Witness ==
    \E r \in Reqs :
        /\ r.pc = "await" /\ r.i = Len(types)
        /\ r.errors # <<>>
        /\ r.nextCalls = <<>> /\ r.ran = <<>> /\ r.res = NoResponse
        /\ r.promise = "pending"

\* C18: a request that is over and had a segment failing its schema has every
\* failure in its list, had the list given to a failure handler, and its
\* middleware neither threw nor rejected.
C18_FailureNeverEscapes ==
    \A r \in Reqs :
        (Done(r) /\ FailedSegments(r) # {}) =>
            /\ ErrorTypes(r) = FailedSegments(r)
            /\ Len(r.ran) = 1 /\ r.ran[1].errors = r.errors
            /\ r.thrown = "none" /\ r.promise = "resolved"

\* C19: when the handler chosen for a failing request throws, or returns a
\* promise that rejects, the request is over with the promise of the
\* middleware rejected with that error, and next was not called.
C19_HandlerErrorPropagates ==
    \A r \in Reqs :
        (Len(r.ran) >= 1 /\ r.ran[1].handler \in {ThrowingHandler, RejectingHandler}) =>
            /\ Done(r)
            /\ r.thrown = "handlerError"
            /\ r.promise = "rejected"
            /\ r.nextCalls = <<>>

\* the global handler threw
C19_Witness ==
    \E r \in Reqs :
        /\ Len(r.ran) = 1
        /\ r.ran[1] = [handler |-> ThrowingHandler, from |-> "options", errors |-> r.errors]
        /\ r.promise = "rejected"

\* what reading req.query gives for the n-th request
QueryRead(n) == ReqGet(requests[n].req, "query")

\* C20: from the moment the middleware has written a request's query (its
\* query passed), reading req.query gives the written value, the schema's
\* output, in every later state; a request whose query was not written reads
\* the value the framework computed, which no write changes; and a step
\* that writes one request's query leaves what every other request reads.
C20_QueryWritablePerRequest ==
    /\ [](\A n \in 1..Len(requests) :
            LET r == requests[n]
            IN  /\ r.req.parsedQuery = r.raw.query
                /\ IF Settled(r, "query") /\ Passes(r, "query")
                   THEN /\ Len(r.req.ownQuery) = 1
                        /\ QueryRead(n) = Outcome(r, "query").data
                   ELSE /\ r.req.ownQuery = <<>>
                        /\ QueryRead(n) = r.req.parsedQuery)
    /\ [][\A n, m \in 1..Len(requests) :
            (n # m /\ requests'[n].req.ownQuery # requests[n].req.ownQuery) =>
                ReqGet(requests'[m].req, "query") = QueryRead(m)]_vars

\* two requests in flight: the query of one was rewritten with the coerced
\* value, the other's query failed and still reads what the framework computed
C20_Witness ==
    \E n, m \in 1..Len(requests) :
        /\ n # m
        /\ Len(requests[n].req.ownQuery) = 1
        /\ QueryRead(n) # requests[n].req.parsedQuery
        /\ Settled(requests[m], "query")
        /\ requests[m].req.ownQuery = <<>>
        /\ QueryRead(m) = requests[m].req.parsedQuery
        /\ QueryRead(m) # QueryRead(n)

-----------------------------------------------------------------------------
(* C21..C30 *)

\* the entries of a request's failure list that its own data accounts for
OwnFailures(r) ==
    {[type |-> type, errors |-> Outcome(r, type).issues] :
        type \in {t \in SegmentNames : Settled(r, t) /\ ~Passes(r, t)}}

\* C21: with several requests suspended in the same middleware, in whatever
\* order their validations settle, the failure list of each holds one entry for
\* each of its own failed segments, with the issues of its own data, and
\* nothing else; each segment of it that passed holds the output of its own
\* data; and once it is over, next was called for it exactly when all its own
\* segments passed, and otherwise one handler was given its own list.
C21_RequestsDoNotInterfere ==
    \A r \in Reqs :
        /\ {r.errors[k] : k \in 1..Len(r.errors)} = OwnFailures(r)
        /\ Len(r.errors) = Cardinality(OwnFailures(r))
        /\ \A type \in SegmentNames :
              ReqGet(r.req, type) =
                 IF Settled(r, type) /\ Passes(r, type)
                 THEN Outcome(r, type).data ELSE r.raw[type]
        /\ Done(r) =>
              IF AllPass(r)
              THEN Len(r.nextCalls) = 1 /\ r.ran = <<>> /\ r.res.status = NoResponse.status
              ELSE /\ r.nextCalls = <<>>
                   /\ Len(r.ran) = 1 /\ r.ran[1].errors = r.errors
                   /\ r.res.status # NoResponse.status

\* a request that came second was answered by the handler while the first,
\* whose data is valid so far, is still suspended with an empty failure list
C21_Witness ==
    /\ Len(requests) >= 2
    /\ requests[1].pc = "await" /\ requests[1].i > 1 /\ requests[1].errors = <<>>
    /\ Done(requests[2]) /\ Len(requests[2].ran) = 1
    /\ Len(requests[2].errors) >= 2

\* C22: a setGlobalOptions(partial) step is one step: it leaves all the keys
\* of partial applied and touches neither the middleware nor a request in
\* flight; a validate() step and a step of a request leave the options alone,
\* and what they read (the strictness a middleware is built with, the handler
\* a failing request is given) is the value the options hold before that step,
\* so a value after one whole call or before it.
C22_SetGlobalOptionsAtomic ==
    [][/\ options' # options =>
             /\ \A newOptions \in PartialOptions :
                   SetGlobalOptions(newOptions) => Overlaid(newOptions)
             /\ middleware' = middleware /\ requests' = requests
       /\ middleware' # middleware =>
             /\ options' = options
             /\ middleware'.builtWhile = options.defaultSchemaObject
       /\ requests' # requests =>
             /\ options' = options
             /\ \A n \in 1..Len(requests) : \A k \in 1..Len(requests'[n].ran) :
                   requests'[n].ran[k].from = "options" =>
                       requests'[n].ran[k].handler = options.handler]_vars

\* a request was answered by a handler that came with a call which also
\* changed the strictness, in a middleware built before that call
C22_Witness ==
    \E r \in Reqs :
        /\ Done(r) /\ Len(r.ran) = 1
        /\ r.ran[1].handler = ForwardingHandler
        /\ options.handler = ForwardingHandler
        /\ options.defaultSchemaObject = Str("lax")
        /\ middleware.builtWhile = Str("strict")

\* C23: whatever setGlobalOptions and setGlobalErrorHandler calls were made,
\* the exported DEFAULT_OPTIONS holds handler = defaultErrorHandler and
\* defaultSchemaObject = "strict" (so that spreading it into an argument of
\* setGlobalOptions brings these keys back to their defaults).
C23_DefaultsStayDefault ==
    /\ ExportedDefaults.handler = defaultErrorHandler
    /\ ExportedDefaults.defaultSchemaObject = Str("strict")

\* a declaration validate() is meant for: none, a zod type or a map of fields
WellFormed(schema) == schema = Undefined \/ isZodType(schema) \/ IsMapping(schema)

\* C24: a request that is over was served by a middleware that validate()
\* built from well-formed declarations only (for any other declaration
\* validate() throws and there is no middleware), and its validation did not
\* end by a validator throwing.
C24_MalformedFailsAtConstruction ==
    \A r \in Reqs :
        Done(r) =>
            /\ \A type \in SegmentNames : WellFormed(middleware.schemas[type])
            /\ r.thrown # "schemaTypeError"

\* what the schema of a segment is to be given: the segment, or {} in its place
Handed(v) == IF v = Undefined THEN EmptyObject ELSE v

\* C25: while a segment's validation is awaited, the request still holds that
\* segment as it arrived and the awaited result is the schema's result on that
\* very value, or on {} when the segment is absent; a z.any() segment, which
\* gives back what it was handed, holds afterwards the value it arrived with,
\* or {} when it was absent, never undefined.
C25_SchemaGetsCurrentValue ==
    \A r \in Reqs :
        /\ r.pc = "await" =>
              LET type == types[r.i]
              IN  /\ ReqGet(r.req, type) = r.raw[type]
                  /\ r.pending = SafeParse(middleware.validation[type], Handed(r.raw[type]))
        /\ \A type \in SegmentNames :
              (middleware.schemas[type] = ZodAny /\ Settled(r, type)) =>
                  /\ ReqGet(r.req, type) = Handed(r.raw[type])
                  /\ ReqGet(r.req, type) # Undefined

\* absent params went to z.any() as {}, next to a body that was present
C25_Witness ==
    \E r \in Reqs :
        /\ middleware.schemas.params = ZodAny
        /\ Done(r)
        /\ r.raw.params = Undefined /\ r.req.params = EmptyObject
        /\ r.raw.body # Undefined

\* the entries a request's failure list has for a segment
EntriesOf(r, type) == {r.errors[k] : k \in {j \in 1..Len(r.errors) : r.errors[j].type = type}}

\* C26: two requests through the same middleware that arrived with the same
\* data in two segments, whatever the third holds, have for each of these two
\* segments, once dealt with in both, the same outcome: the same entry in the
\* failure list (or none) and the same value left in the request.
C26_SegmentIndependence ==
    \A n, m \in 1..Len(requests) : \A other \in SegmentNames :
        (\A type \in SegmentNames \ {other} : requests[n].raw[type] = requests[m].raw[type]) =>
            \A type \in SegmentNames \ {other} :
                (Settled(requests[n], type) /\ Settled(requests[m], type)) =>
                    /\ EntriesOf(requests[n], type) = EntriesOf(requests[m], type)
                    /\ ReqGet(requests[n].req, type) = ReqGet(requests[m].req, type)

\* two finished requests that differ in the query only: it failed in one and
\* passed in the other, and the body of both was rewritten alike
C26_Witness ==
    \E n, m \in 1..Len(requests) :
        /\ Done(requests[n]) /\ Done(requests[m])
        /\ requests[n].raw.query # requests[m].raw.query
        /\ requests[n].raw.params = requests[m].raw.params
        /\ requests[n].raw.body = requests[m].raw.body
        /\ "query" \in ErrorTypes(requests[n]) /\ "query" \notin ErrorTypes(requests[m])
        /\ requests[n].req.body # requests[n].raw.body
        /\ requests[n].req.body = requests[m].req.body

\* C27: the step that builds a middleware gives it one validator for each of
\* the three segments; from then on no step replaces or rebuilds them, whatever
\* the options become; and a step of a request (its call, a validation that
\* settles, its dispatch) changes neither the validators nor the options.
C27_ValidatorsBuiltOnce ==
    [][/\ (middleware = NotBuilt /\ middleware' # NotBuilt) =>
             /\ DOMAIN middleware'.validation = SegmentNames
             /\ \A type \in SegmentNames :
                   middleware'.validation[type] =
                      Normalize(middleware'.zodObject, middleware'.schemas[type])
       /\ middleware # NotBuilt => middleware' = middleware
       /\ requests' # requests => (middleware' = middleware /\ options' = options)]_vars

\* a request was served to its end by a middleware built under another value
\* of the option than the present one
C27_Witness ==
    \E r \in Reqs :
        /\ Done(r)
        /\ DOMAIN middleware.validation = SegmentNames
        /\ middleware.builtWhile # options.defaultSchemaObject
        /\ \E type \in SegmentNames : IsMapping(middleware.schemas[type])

\* C28: a segment that has an entry in the failure list holds the value the
\* request arrived with, from the moment it failed on, and so when the failure
\* handler is called and after it; a failed query was never written.
C28_FailedSegmentKeepsRaw ==
    \A r \in Reqs : \A type \in ErrorTypes(r) :
        /\ ReqGet(r.req, type) = r.raw[type]
        /\ type = "query" => r.req.ownQuery = <<>>

\* a handler was called for a request of which one segment failed and still
\* holds its data, while another had been rewritten with another value
C28_Witness ==
    \E r \in Reqs : \E failed, passed \in SegmentNames :
        /\ Len(r.ran) = 1
        /\ failed \in ErrorTypes(r)
        /\ NonEmpty(r.raw[failed]) /\ ReqGet(r.req, failed) = r.raw[failed]
        /\ passed \notin ErrorTypes(r)
        /\ ReqGet(r.req, passed) # r.raw[passed]

\* C29: a request whose three validations have settled and whose middleware
\* has returned got exactly one call from it: next, when its failure list is
\* empty, or one failure handler, when it is not; and no handler was given an
\* empty list.
C29_ExactlyOneDispatch ==
    \A r \in Reqs :
        Done(r) =>
            /\ Cardinality(CallsBy(r, "middleware")) + Len(r.ran) = 1
            /\ r.errors = <<>> <=> Cardinality(CallsBy(r, "middleware")) = 1
            /\ \A k \in 1..Len(r.ran) : r.ran[k].errors # <<>>

\* C30: a request that failed in a middleware without a handler of its own was
\* given to a handler, whatever setGlobalOptions was called with before: the
\* handler of the options if they hold one, otherwise the built-in default.
C30_FailureAlwaysHandled ==
    \A r \in Reqs :
        (Done(r) /\ r.errors # <<>> /\ middleware.schemas.handler = Undefined) =>
            /\ Len(r.ran) = 1
            /\ r.ran[1].handler \in {defaultErrorHandler, GlobalHandler, ForwardingHandler}
            /\ r.thrown = "none"

====
